---- MODULE Spec2Model ----
(***************************************************************************)
(* Wordle / Fibble game with the integrated solver of                      *)
(* wordlesolver/wordleoffline/classes/GameState.py.                        *)
(*                                                                         *)
(* A word is a function from the positions 0..4 to one-character strings,  *)
(* a feedback a function from 0..4 to the three Feedback tags.  A Python   *)
(* dict is a function whose DOMAIN is its key set.                         *)
(***************************************************************************)
EXTENDS Integers, Sequences, FiniteSets, TLC

VARIABLES
  games,         \* instance -> the fields of that GameState object
  _constraints,  \* GameState._constraints (class attribute)
  _candidates,   \* GameState._candidates  (class attribute)
  _guess_num,    \* GameState._guess_num   (class attribute)
  _history,      \* GameState._history     (class attribute)
  op,            \* the last call made: its name, its instance, what it
                 \* returned, and what a solver turn went through (the
                 \* oracle replies it consumed, the return statement it
                 \* took, the candidate list after its filter step and
                 \* after its lie recovery step)
  sc_target,     \* SpecScore: the target the guesses are scored against
  sc_guess,      \* SpecScore: the last guess scored
  sc_feedback,   \* SpecScore: its truthful feedback
  sc_model,      \* SpecScore: the Constraints model fed every pair so far
  sc_n           \* SpecScore: the number of pairs fed

vars == <<games, _constraints, _candidates, _guess_num, _history, op,
          sc_target, sc_guess, sc_feedback, sc_model, sc_n>>

clsVars == <<_constraints, _candidates, _guess_num, _history>>

gameVars == <<games, _constraints, _candidates, _guess_num, _history, op>>

scoreVars == <<sc_target, sc_guess, sc_feedback, sc_model, sc_n>>

\* ------------------------------------------------------------------------
\* Bounds of the model
\* ------------------------------------------------------------------------

\* Largest number of truthful (guess, feedback) pairs fed to one Constraints
\* model in SpecScore.
MaxHist == 2

\* Largest num_lies a caller configures.
MaxLies == 2

\* Largest num_guesses a caller configures (besides the constructor's 6);
\* len(self.words) is capped at the same number, so that a game configured
\* with a smaller limit is called once more after it has ended.
MaxGuesses == 3

\* ------------------------------------------------------------------------
\* Program constants
\* ------------------------------------------------------------------------

\* range(5): the word length, the number of feedback columns.
WordLen == 5

\* self.num_guesses = 6 in __init__.
DefaultNumGuesses == 6

MAX_LLM_CONTINUOUS_CALLS == 5

Pos == 0 .. (WordLen - 1)

\* Feedback enum of LetterCell.py.
Feedback == {"correct", "present", "incorrect"}

\* Python's None as a consumed entry of target_letters.
None == "None"

\* lie_column = None
NoColumn == 0 - 1

\* ignore_column = -1, the default of Constraints.update
NoIgnore == 0 - 1

\* W(<<"c","r","a","n","e">>) is the word "crane", indexed from 0.
W(s) == [i \in Pos |-> s[i + 1]]

\* str.lower() on the letters the model uses in upper case.
UpperToLower == ("C" :> "c") @@ ("R" :> "r") @@ ("A" :> "a") @@ ("N" :> "n")
                @@ ("E" :> "e")

LowerLetter(c) == IF c \in DOMAIN UpperToLower THEN UpperToLower[c] ELSE c

Lower(word) == [i \in DOMAIN word |-> LowerLetter(word[i])]

\* dict.get(k, default)
Get(d, k, default) == IF k \in DOMAIN d THEN d[k] ELSE default

\* word.count(letter)
Count(word, letter) == Cardinality({i \in DOMAIN word : word[i] = letter})

LettersOf(word) == {word[i] : i \in DOMAIN word}

Max(a, b) == IF a >= b THEN a ELSE b

Min(a, b) == IF a <= b THEN a ELSE b

\* ------------------------------------------------------------------------
\* Vocabulary (a sample of the 2265 words of WORDS) and the starter list
\* ------------------------------------------------------------------------

crane == W(<<"c", "r", "a", "n", "e">>)
slate == W(<<"s", "l", "a", "t", "e">>)
level == W(<<"l", "e", "v", "e", "l">>)
ladle == W(<<"l", "a", "d", "l", "e">>)
salet == W(<<"s", "a", "l", "e", "t">>)
reast == W(<<"r", "e", "a", "s", "t">>)
crate == W(<<"c", "r", "a", "t", "e">>)
trace == W(<<"t", "r", "a", "c", "e">>)
slant == W(<<"s", "l", "a", "n", "t">>)
cocoa == W(<<"c", "o", "c", "o", "a">>)
CRANE == W(<<"C", "R", "A", "N", "E">>)

\* WORDS: the vocabulary the model runs with.
WORDS == {salet, crane, crate, trace, cocoa}

\* Guesses a caller passes to enter_word directly.
DirectGuesses == {cocoa, CRANE}

\* Inputs of the scoring function in SpecScore: every word over two letters
\* and words with up to three occurrences of a letter.
ScoreTargets == [Pos -> {"a", "b"}]
                \cup {crane, slate, level, ladle, cocoa}

ScoreGuesses == ScoreTargets \cup {CRANE}

\* STARTERS, indexed from 0 as in the source.
STARTERS == [i \in 0 .. 6 |->
               <<salet, reast, crate, trace, slate, crane, slant>>[i + 1]]

\* ------------------------------------------------------------------------
\* FeedbackEngine: GameState._calculate_feedback, GameState._apply_lie
\* ------------------------------------------------------------------------

\* target_letters.index(x): the lowest index holding x.
IndexOf(tl, x) == CHOOSE i \in DOMAIN tl :
                     /\ tl[i] = x
                     /\ \A j \in DOMAIN tl : tl[j] = x => i <= j

\* A first pass that stops one position early: range(4).
FirstPassSkipLast(guess, target) ==
  [feedback       |-> [i \in Pos |-> IF i < WordLen - 1 /\ guess[i] = target[i]
                                      THEN "correct" ELSE "incorrect"],
   target_letters |-> [i \in Pos |-> IF i < WordLen - 1 /\ guess[i] = target[i]
                                      THEN None ELSE target[i]]]

\* First pass (greens): feedback and target_letters after the loop.
FirstPass(guess, target) ==
  [feedback       |-> [i \in Pos |-> IF guess[i] = target[i]
                                      THEN "correct" ELSE "incorrect"],
   target_letters |-> [i \in Pos |-> IF guess[i] = target[i]
                                      THEN None ELSE target[i]]]

\* A second pass that does not consume the target letter it matched.
RECURSIVE SecondPassNoConsume(_, _, _)
SecondPassNoConsume(i, guess, st) ==
  IF i >= WordLen THEN st
  ELSE IF /\ st.feedback[i] = "incorrect"
          /\ \E k \in Pos : st.target_letters[k] = guess[i]
       THEN SecondPassNoConsume(i + 1, guess,
              [st EXCEPT !.feedback = [@ EXCEPT ![i] = "present"]])
       ELSE SecondPassNoConsume(i + 1, guess, st)

\* A second pass that walks the positions from the right.
RECURSIVE SecondPassFromRight(_, _, _)
SecondPassFromRight(i, guess, st) ==
  IF i >= WordLen THEN st
  ELSE LET p == WordLen - 1 - i IN
       IF /\ st.feedback[p] = "incorrect"
          /\ \E k \in Pos : st.target_letters[k] = guess[p]
       THEN SecondPassFromRight(i + 1, guess,
              [feedback       |-> [st.feedback EXCEPT ![p] = "present"],
               target_letters |-> [st.target_letters EXCEPT
                                     ![CHOOSE k \in Pos :
                                         st.target_letters[k] = guess[p]] = None]])
       ELSE SecondPassFromRight(i + 1, guess, st)

\* Second pass (yellows), position i onwards, on the loop state st.
RECURSIVE SecondPass(_, _, _)
SecondPass(i, guess, st) ==
  IF i >= WordLen THEN st
  ELSE IF /\ st.feedback[i] = "incorrect"
          /\ \E k \in Pos : st.target_letters[k] = guess[i]
       THEN SecondPass(i + 1, guess,
              [feedback       |-> [st.feedback EXCEPT ![i] = "present"],
               target_letters |-> [st.target_letters EXCEPT
                                     ![IndexOf(st.target_letters, guess[i])] = None]])
       ELSE SecondPass(i + 1, guess, st)

\* A scoring that compares the guess as typed, without lower().
ScoreCaseSensitive(guess, target) ==
  SecondPass(0, guess, FirstPass(guess, target)).feedback

\* The truthful feedback: _calculate_feedback up to the lie.
Score(guess, target) ==
  SecondPass(0, Lower(guess), FirstPass(Lower(guess), Lower(target))).feedback

\* A lie that turns every tag other than correct into correct.
LieTagPromotes(fb) == IF fb = "correct" THEN "incorrect" ELSE "correct"

\* The tag _apply_lie writes in the lie column.
LieTag(fb) == IF fb = "correct" THEN "incorrect"
              ELSE IF fb = "present" THEN "incorrect"
              ELSE "present"

\* An _apply_lie without the present case: a present tag is left as it is.
ApplyLiePresentKept(self, feedback) ==
  IF self.lie_column # NoColumn /\ self.lies_given < self.num_lies
  THEN [feedback   |-> [feedback EXCEPT
                          ![self.lie_column] =
                             IF @ = "correct" THEN "incorrect"
                             ELSE IF @ = "present" THEN "present"
                             ELSE "present"],
        lies_given |-> self.lies_given + 1]
  ELSE [feedback |-> feedback, lies_given |-> self.lies_given]

\* An _apply_lie that does not count the lie it applied.
ApplyLieUncounted(self, feedback) ==
  IF self.lie_column # NoColumn /\ self.lies_given < self.num_lies
  THEN [feedback   |-> [feedback EXCEPT
                          ![self.lie_column] =
                             IF @ = "correct" THEN "incorrect"
                             ELSE IF @ = "present" THEN "incorrect"
                             ELSE "present"],
        lies_given |-> self.lies_given]
  ELSE [feedback |-> feedback, lies_given |-> self.lies_given]

\* _apply_lie: the feedback returned and the new self.lies_given.
ApplyLie(self, feedback) ==
  IF self.lie_column # NoColumn /\ self.lies_given < self.num_lies
  THEN [feedback   |-> [feedback EXCEPT
                          ![self.lie_column] = LieTag(feedback[self.lie_column])],
        lies_given |-> self.lies_given + 1]
  ELSE [feedback |-> feedback, lies_given |-> self.lies_given]

\* _calculate_feedback: the feedback returned and the new self.lies_given.
CalculateFeedback(self, guess) ==
  IF self.num_lies > 0 /\ self.lies_given < self.num_lies
  THEN ApplyLie(self, Score(guess, self.target_word))
  ELSE [feedback   |-> Score(guess, self.target_word),
        lies_given |-> self.lies_given]

\* ------------------------------------------------------------------------
\* ConstraintModel: class Constraints
\* ------------------------------------------------------------------------

\* Constraints(): the dataclass defaults.
NewConstraints ==
  [correct_pos  |-> <<>>,
   excluded_pos |-> [i \in Pos |-> {}],
   min_count    |-> <<>>,
   max_count    |-> <<>>]

\* d[k] = v on a dict.
Put(d, k, v) == (k :> v) @@ d

\* A first loop that does not skip the ignored column.
RECURSIVE UpdateMarksAllColumns(_, _, _, _, _)
UpdateMarksAllColumns(i, word, feedback, ignore_column, st) ==
  IF i >= WordLen THEN st
  ELSE IF feedback[i] = "correct"
       THEN UpdateMarksAllColumns(i + 1, word, feedback, ignore_column,
              [c |-> [st.c EXCEPT !.correct_pos = Put(@, i, word[i])],
               confirmed |-> Put(st.confirmed, word[i],
                                 Get(st.confirmed, word[i], 0) + 1)])
  ELSE IF feedback[i] = "present"
       THEN UpdateMarksAllColumns(i + 1, word, feedback, ignore_column,
              [c |-> [st.c EXCEPT !.excluded_pos[i] = @ \cup {word[i]}],
               confirmed |-> Put(st.confirmed, word[i],
                                 Get(st.confirmed, word[i], 0) + 1)])
  ELSE UpdateMarksAllColumns(i + 1, word, feedback, ignore_column, st)

\* First loop of update: pins, present exclusions, the confirmed tally.
\* st = [c |-> the model, confirmed |-> the dict confirmed].
RECURSIVE UpdateMarks(_, _, _, _, _)
UpdateMarks(i, word, feedback, ignore_column, st) ==
  IF i >= WordLen THEN st
  ELSE IF i = ignore_column
       THEN UpdateMarks(i + 1, word, feedback, ignore_column, st)
  ELSE IF feedback[i] = "correct"
       THEN UpdateMarks(i + 1, word, feedback, ignore_column,
              [c |-> [st.c EXCEPT !.correct_pos = Put(@, i, word[i])],
               confirmed |-> Put(st.confirmed, word[i],
                                 Get(st.confirmed, word[i], 0) + 1)])
  ELSE IF feedback[i] = "present"
       THEN UpdateMarks(i + 1, word, feedback, ignore_column,
              [c |-> [st.c EXCEPT !.excluded_pos[i] = @ \cup {word[i]}],
               confirmed |-> Put(st.confirmed, word[i],
                                 Get(st.confirmed, word[i], 0) + 1)])
  ELSE UpdateMarks(i + 1, word, feedback, ignore_column, st)

\* A second loop that overwrites min_count with the tally of this guess.
UpdateMinOverwrite(min_count, confirmed) ==
  IF DOMAIN confirmed = {} THEN min_count
  ELSE [l \in DOMAIN min_count \cup DOMAIN confirmed |->
          IF l \in DOMAIN confirmed THEN confirmed[l] ELSE min_count[l]]

\* Second loop of update: min_count as a running maximum.
UpdateMin(min_count, confirmed) ==
  IF DOMAIN confirmed = {} THEN min_count
  ELSE [l \in DOMAIN min_count \cup DOMAIN confirmed |->
          IF l \in DOMAIN confirmed
          THEN Max(Get(min_count, l, 0), confirmed[l])
          ELSE min_count[l]]

\* A third loop without the confirmed-count staging: an incorrect mark
\* always means the letter is absent.
RECURSIVE UpdateIncorrectNaive(_, _, _, _, _, _)
UpdateIncorrectNaive(i, word, feedback, ignore_column, confirmed, c) ==
  IF i >= WordLen THEN c
  ELSE IF i = ignore_column
       THEN UpdateIncorrectNaive(i + 1, word, feedback, ignore_column, confirmed, c)
  ELSE IF feedback[i] = "incorrect"
       THEN UpdateIncorrectNaive(i + 1, word, feedback, ignore_column, confirmed,
              [c EXCEPT
                 !.max_count = Put(@, word[i], 0),
                 !.excluded_pos = [j \in Pos |-> IF j # ignore_column
                                                 THEN @[j] \cup {word[i]} ELSE @[j]]])
  ELSE UpdateIncorrectNaive(i + 1, word, feedback, ignore_column, confirmed, c)

\* A third loop that excludes an unconfirmed letter only where it was marked.
RECURSIVE UpdateIncorrectLocal(_, _, _, _, _, _)
UpdateIncorrectLocal(i, word, feedback, ignore_column, confirmed, c) ==
  IF i >= WordLen THEN c
  ELSE IF i = ignore_column
       THEN UpdateIncorrectLocal(i + 1, word, feedback, ignore_column, confirmed, c)
  ELSE IF feedback[i] = "incorrect"
       THEN UpdateIncorrectLocal(i + 1, word, feedback, ignore_column, confirmed,
              [c EXCEPT
                 !.max_count = Put(@, word[i], Get(confirmed, word[i], 0)),
                 !.excluded_pos[i] =
                    IF Get(confirmed, word[i], 0) = 0
                    THEN @ \cup {word[i]} ELSE @])
  ELSE UpdateIncorrectLocal(i + 1, word, feedback, ignore_column, confirmed, c)

\* A third loop that keeps the confirmed count as the upper bound but
\* excludes every letter marked incorrect from all positions.
RECURSIVE UpdateIncorrectExcluding(_, _, _, _, _, _)
UpdateIncorrectExcluding(i, word, feedback, ignore_column, confirmed, c) ==
  IF i >= WordLen THEN c
  ELSE IF i = ignore_column
       THEN UpdateIncorrectExcluding(i + 1, word, feedback, ignore_column,
                                     confirmed, c)
  ELSE IF feedback[i] = "incorrect"
       THEN UpdateIncorrectExcluding(i + 1, word, feedback, ignore_column,
              confirmed,
              [c EXCEPT
                 !.max_count = Put(@, word[i], Get(confirmed, word[i], 0)),
                 !.excluded_pos = [j \in Pos |-> IF j # ignore_column
                                                 THEN @[j] \cup {word[i]} ELSE @[j]]])
  ELSE UpdateIncorrectExcluding(i + 1, word, feedback, ignore_column,
                                confirmed, c)

\* Third loop of update: max_count and the global exclusions.
RECURSIVE UpdateIncorrect(_, _, _, _, _, _)
UpdateIncorrect(i, word, feedback, ignore_column, confirmed, c) ==
  IF i >= WordLen THEN c
  ELSE IF i = ignore_column
       THEN UpdateIncorrect(i + 1, word, feedback, ignore_column, confirmed, c)
  ELSE IF feedback[i] = "incorrect"
       THEN UpdateIncorrect(i + 1, word, feedback, ignore_column, confirmed,
              [c EXCEPT
                 !.max_count = Put(@, word[i], Get(confirmed, word[i], 0)),
                 !.excluded_pos =
                    IF Get(confirmed, word[i], 0) = 0
                    THEN [j \in Pos |-> IF j # ignore_column
                                        THEN @[j] \cup {word[i]} ELSE @[j]]
                    ELSE @])
  ELSE UpdateIncorrect(i + 1, word, feedback, ignore_column, confirmed, c)

\* Constraints.update(word, feedback, ignore_column); -1 ignores no column.
Update(c, word, feedback, ignore_column) ==
  LET w  == Lower(word)
      st == UpdateMarks(0, w, feedback, ignore_column,
                        [c |-> c, confirmed |-> <<>>])
      c2 == [st.c EXCEPT !.min_count = UpdateMin(@, st.confirmed)]
  IN  UpdateIncorrect(0, w, feedback, ignore_column, st.confirmed, c2)

\* A matches that does not lowercase the word.
MatchesCaseSensitive(c, word) ==
  /\ \A pos \in DOMAIN c.correct_pos : word[pos] = c.correct_pos[pos]
  /\ \A pos \in DOMAIN c.excluded_pos : word[pos] \notin c.excluded_pos[pos]
  /\ \A letter \in DOMAIN c.min_count : Count(word, letter) >= c.min_count[letter]
  /\ \A letter \in DOMAIN c.max_count : Count(word, letter) <= c.max_count[letter]

\* Constraints.matches(word)
Matches(c, word) ==
  LET w == Lower(word) IN
  /\ \A pos \in DOMAIN c.correct_pos : w[pos] = c.correct_pos[pos]
  /\ \A pos \in DOMAIN c.excluded_pos : w[pos] \notin c.excluded_pos[pos]
  /\ \A letter \in DOMAIN c.min_count : Count(w, letter) >= c.min_count[letter]
  /\ \A letter \in DOMAIN c.max_count : Count(w, letter) <= c.max_count[letter]

\* A matches that tallies the letters of the word in self.min_count instead
\* of the local dict counts.
MatchesCallTallying(c, word) ==
  [self   |-> [c EXCEPT !.min_count =
                 [l \in DOMAIN @ \cup LettersOf(Lower(word)) |-> Get(@, l, 0)]],
   result |-> Matches(c, word)]

\* A call c.matches(word): the object as the call leaves it (the method
\* rebinds the local word, fills the local counts and stores to no
\* attribute) and the value returned.
MatchesCall(c, word) == [self |-> c, result |-> Matches(c, word)]

\* ------------------------------------------------------------------------
\* GameSession: class GameState
\* ------------------------------------------------------------------------

\* The attributes __init__ sets before it calls reset().
InitFields ==
  [num_lies           |-> 0,
   num_guesses        |-> DefaultNumGuesses,
   words              |-> <<>>,
   current_word_index |-> 0,
   target_word        |-> <<>>,
   status             |-> "playing",
   success            |-> FALSE,
   was_valid_guess    |-> FALSE,
   lie_column         |-> NoColumn,
   lies_given         |-> 0]

\* A reset() that zeroes lies_given only on the branch that draws no lie
\* column.
ResetSelfKeepsLies(self, target, col) ==
  [self EXCEPT
     !.words = <<>>,
     !.current_word_index = 0,
     !.target_word = target,
     !.status = "playing",
     !.success = FALSE,
     !.was_valid_guess = FALSE,
     !.lie_column = IF self.num_lies > 0 THEN col ELSE NoColumn,
     !.lies_given = IF self.num_lies > 0 THEN @ ELSE 0]

\* reset() on the instance attributes; target and col are the two random draws.
ResetSelf(self, target, col) ==
  [self EXCEPT
     !.words = <<>>,
     !.current_word_index = 0,
     !.target_word = target,
     !.status = "playing",
     !.success = FALSE,
     !.was_valid_guess = FALSE,
     !.lie_column = IF self.num_lies > 0 THEN col ELSE NoColumn,
     !.lies_given = 0]

\* reset() on the class attributes ("Reset solver state").
ResetCls ==
  [constraints |-> NewConstraints,
   candidates  |-> WORDS,
   guess_num   |-> 0,
   history     |-> <<>>]

\* An enter_word that draws the lie column anew for the next guess (here:
\* moves it one column on) whenever lies are configured.
EnterWordMovingLie(self, guess) ==
  LET g      == Lower(guess)
      r      == CalculateFeedback(self, g)
      words2 == Append(self.words, [word |-> g, feedback |-> r.feedback])
  IN  [self EXCEPT
         !.words = words2,
         !.current_word_index = Len(words2),
         !.lies_given = r.lies_given,
         !.lie_column = IF @ # NoColumn THEN (@ + 1) % WordLen ELSE @,
         !.success = IF g = self.target_word THEN TRUE
                     ELSE IF Len(words2) >= self.num_guesses THEN FALSE
                     ELSE @,
         !.status = IF g = self.target_word \/ Len(words2) >= self.num_guesses
                    THEN "end" ELSE @]

\* An enter_word that ends a game only when the guesses exceed num_guesses.
EnterWordLimitExceeded(self, guess) ==
  LET g      == Lower(guess)
      r      == CalculateFeedback(self, g)
      words2 == Append(self.words, [word |-> g, feedback |-> r.feedback])
  IN  [self EXCEPT
         !.words = words2,
         !.current_word_index = Len(words2),
         !.lies_given = r.lies_given,
         !.success = IF g = self.target_word THEN TRUE
                     ELSE IF Len(words2) > self.num_guesses THEN FALSE
                     ELSE @,
         !.status = IF g = self.target_word \/ Len(words2) > self.num_guesses
                    THEN "end" ELSE @]

\* An enter_word that tests the guess limit before it tests the guess.
EnterWordLimitFirst(self, guess) ==
  LET g      == Lower(guess)
      r      == CalculateFeedback(self, g)
      words2 == Append(self.words, [word |-> g, feedback |-> r.feedback])
  IN  [self EXCEPT
         !.words = words2,
         !.current_word_index = Len(words2),
         !.lies_given = r.lies_given,
         !.success = IF Len(words2) >= self.num_guesses THEN FALSE
                     ELSE IF g = self.target_word THEN TRUE
                     ELSE @,
         !.status = IF g = self.target_word \/ Len(words2) >= self.num_guesses
                    THEN "end" ELSE @]

\* enter_word(guess) on the instance attributes.
EnterWordSelf(self, guess) ==
  LET g      == Lower(guess)
      r      == CalculateFeedback(self, g)
      words2 == Append(self.words, [word |-> g, feedback |-> r.feedback])
  IN  [self EXCEPT
         !.words = words2,
         !.current_word_index = Len(words2),
         !.lies_given = r.lies_given,
         !.success = IF g = self.target_word THEN TRUE
                     ELSE IF Len(words2) >= self.num_guesses THEN FALSE
                     ELSE @,
         !.status = IF g = self.target_word \/ Len(words2) >= self.num_guesses
                    THEN "end" ELSE @]

\* ------------------------------------------------------------------------
\* SolverLoop: GameState.enter_word_from_ai and its helpers
\* ------------------------------------------------------------------------

\* An oracle reply is the sequence of the tokens of its text; a token is a
\* function from 0..n-1 to characters.  The empty sequence is both None and
\* the empty text, which "if resp:" does not tell apart.
NoReply == <<>>

\* A token that is not five letters long.
Junk == [i \in 0 .. 1 |-> <<"o", "k">>[i + 1]]

\* No word extracted (None).
NoWord == <<>>

\* The characters [a-zA-Z] and str.isalpha() take for letters.
Letters == {"a", "b", "c", "d", "e", "f", "g", "h", "i", "j", "k", "l", "m",
            "n", "o", "p", "q", "r", "s", "t", "u", "v", "w", "x", "y", "z"}
           \cup DOMAIN UpperToLower

\* A token of five characters that are not all letters.
tea4r == W(<<"t", "e", "a", "4", "r">>)

\* len(text) == 5 and text.isalpha(); a match of \b[a-zA-Z]{5}\b
IsFiveLetters(tok) == DOMAIN tok = Pos /\ \A i \in Pos : tok[i] \in Letters

\* _extract_word without the isalpha() test: any text of five characters is
\* taken for a word.
ExtractWordAnyFive(text) ==
  IF text = NoReply THEN NoWord
  ELSE IF Len(text) = 1 /\ DOMAIN text[1] = Pos THEN Lower(text[1])
  ELSE LET words == {k \in 1 .. Len(text) : IsFiveLetters(text[k])}
           first(S) == CHOOSE k \in S : \A j \in S : k <= j
       IN  IF words # {} THEN Lower(text[first(words)]) ELSE NoWord

\* _extract_word(text)
ExtractWord(text) ==
  IF text = NoReply THEN NoWord
  ELSE IF Len(text) = 1 /\ IsFiveLetters(text[1]) THEN Lower(text[1])
  ELSE LET words == {k \in 1 .. Len(text) : IsFiveLetters(text[k])}
           known == {k \in words : Lower(text[k]) \in WORDS}
           first(S) == CHOOSE k \in S : \A j \in S : k <= j
       IN  IF known # {} THEN Lower(text[first(known)])
           ELSE IF words # {} THEN Lower(text[first(words)])
           ELSE NoWord

\* freq of _score_word, times ten.
Freq == ("e" :> 127) @@ ("t" :> 91) @@ ("a" :> 82) @@ ("o" :> 75)
        @@ ("i" :> 70) @@ ("n" :> 67) @@ ("s" :> 63) @@ ("h" :> 61)
        @@ ("r" :> 60) @@ ("d" :> 43) @@ ("l" :> 40) @@ ("c" :> 28)

RECURSIVE SumFreq(_)
SumFreq(S) == IF S = {} THEN 0
              ELSE LET c == CHOOSE x \in S : TRUE
                   IN  Get(Freq, c, 1) + SumFreq(S \ {c})

\* _score_word(word), times ten.
ScoreWord(word) == SumFreq(LettersOf(word)) + Cardinality(LettersOf(word)) * 20

\* A sort in ascending order: scored[0] is a word of the lowest score.
TopRankedAscending(cands) ==
  {w \in cands : \A v \in cands : ScoreWord(w) <= ScoreWord(v)}

\* The words sorted(..., key=_score_word, reverse=True) may put first: the
\* order among equal scores is the iteration order of a set of strings.
TopRanked(cands) == {w \in cands : \A v \in cands : ScoreWord(w) >= ScoreWord(v)}

\* guessed_words
GuessedWords(self) == {Lower(self.words[k].word) : k \in 1 .. Len(self.words)}

\* An ingestion that scores the previous guess against the target itself
\* instead of reading the feedback the game reported.
IngestTruth(self, cls) ==
  IF self.words = <<>> THEN cls
  ELSE LET prev     == self.words[Len(self.words)]
           word     == Lower(prev.word)
           feedback == Score(word, self.target_word)
       IN  IF cls.history = <<>> \/ cls.history[Len(cls.history)][1] # word
           THEN [cls EXCEPT
                   !.constraints = Update(@, word, feedback, NoIgnore),
                   !.history = Append(@, <<word, feedback>>)]
           ELSE cls

\* "Get feedback from previous guess": the ingestion step.
Ingest(self, cls) ==
  IF self.words = <<>> THEN cls
  ELSE LET prev     == self.words[Len(self.words)]
           word     == Lower(prev.word)
           feedback == prev.feedback
       IN  IF cls.history = <<>> \/ cls.history[Len(cls.history)][1] # word
           THEN [cls EXCEPT
                   !.constraints = Update(@, word, feedback, NoIgnore),
                   !.history = Append(@, <<word, feedback>>)]
           ELSE cls

\* A filter step that refills the list with the vocabulary when it leaves
\* nothing.
FilterOrVocabulary(self, cls) ==
  LET kept == {w \in cls.candidates :
                 Matches(cls.constraints, w) /\ w \notin GuessedWords(self)}
  IN  [cls EXCEPT !.candidates = IF kept = {} THEN WORDS ELSE kept]

\* "Filter candidates"
FilterCandidates(self, cls) ==
  [cls EXCEPT !.candidates =
     {w \in @ : Matches(cls.constraints, w) /\ w \notin GuessedWords(self)}]

\* test_constraints of one lie_col: a fresh model fed the whole history.
RECURSIVE Rebuild(_, _, _, _)
Rebuild(k, history, lie_col, c) ==
  IF k > Len(history) THEN c
  ELSE Rebuild(k + 1, history, lie_col,
               Update(c, history[k][1], history[k][2], lie_col))

\* A recovery loop that tries the columns from the right: its step lie_col
\* tests column 4 - lie_col.
RECURSIVE LieRecoveryFromRight(_, _, _)
LieRecoveryFromRight(lie_col, self, cls) ==
  IF lie_col >= WordLen THEN cls
  ELSE LET col              == WordLen - 1 - lie_col
           test_constraints == Rebuild(1, cls.history, col, NewConstraints)
           test_candidates  == {w \in WORDS : /\ Matches(test_constraints, w)
                                              /\ w \notin GuessedWords(self)}
       IN  IF test_candidates # {}
           THEN [cls EXCEPT !.candidates = test_candidates,
                            !.constraints = test_constraints]
           ELSE LieRecoveryFromRight(lie_col + 1, self, cls)

\* The loop "for lie_col in range(5)", from lie_col onwards.
RECURSIVE LieRecovery(_, _, _)
LieRecovery(lie_col, self, cls) ==
  IF lie_col >= WordLen THEN cls
  ELSE LET test_constraints == Rebuild(1, cls.history, lie_col, NewConstraints)
           test_candidates  == {w \in WORDS : /\ Matches(test_constraints, w)
                                              /\ w \notin GuessedWords(self)}
       IN  IF test_candidates # {}
           THEN [cls EXCEPT !.candidates = test_candidates,
                            !.constraints = test_constraints]
           ELSE LieRecovery(lie_col + 1, self, cls)

\* A recovery step that does not ask whether the game allows lies.
AfterRecoveryAnyGame(self, cls1) ==
  IF cls1.candidates = {}
  THEN LieRecovery(0, self, cls1)
  ELSE cls1

\* "For Fibble: if no candidates, try relaxing constraints": the solver
\* state after the lie recovery step, cls1 being the state after the filter.
AfterRecovery(self, cls1) ==
  IF cls1.candidates = {} /\ self.num_lies > 0
  THEN LieRecovery(0, self, cls1)
  ELSE cls1

\* "No candidates - reset"
Relax(cls) ==
  IF cls.candidates = {}
  THEN [cls EXCEPT !.candidates = {w \in WORDS : Matches(cls.constraints, w)}]
  ELSE cls

\* The oracle loop with "llm_calls += 1" moved under "if resp:": the calls
\* that got no reply are not counted.
RECURSIVE AskOracleCountReplies(_, _, _)
AskOracleCountReplies(attempt, replies, constraints) ==
  LET answered(n) == Cardinality({k \in 1 .. n : replies[k] # NoReply}) IN
  IF attempt > MAX_LLM_CONTINUOUS_CALLS
  THEN [guess |-> NoWord, llm_calls |-> answered(attempt - 1),
        asked |-> SubSeq(replies, 1, attempt - 1)]
  ELSE LET resp  == replies[attempt]
           guess == ExtractWord(resp)
       IN  IF resp # NoReply /\ guess # NoWord /\ Matches(constraints, guess)
           THEN [guess |-> guess, llm_calls |-> answered(attempt),
                 asked |-> SubSeq(replies, 1, attempt)]
           ELSE AskOracleCountReplies(attempt + 1, replies, constraints)

\* An oracle loop that takes the first word it can extract, without asking
\* the constraint model.
RECURSIVE AskOracleAnyWord(_, _, _)
AskOracleAnyWord(attempt, replies, constraints) ==
  IF attempt > MAX_LLM_CONTINUOUS_CALLS
  THEN [guess |-> NoWord, llm_calls |-> MAX_LLM_CONTINUOUS_CALLS,
        asked |-> SubSeq(replies, 1, attempt - 1)]
  ELSE LET resp  == replies[attempt]
           guess == ExtractWord(resp)
       IN  IF resp # NoReply /\ guess # NoWord
           THEN [guess |-> guess, llm_calls |-> attempt,
                 asked |-> SubSeq(replies, 1, attempt)]
           ELSE AskOracleAnyWord(attempt + 1, replies, constraints)

\* The oracle loop from call number attempt (1-based) onwards: the accepted
\* guess (NoWord when the budget runs out), llm_calls, and asked, the replies
\* _call_llm returned to the calls made.
RECURSIVE AskOracle(_, _, _)
AskOracle(attempt, replies, constraints) ==
  IF attempt > MAX_LLM_CONTINUOUS_CALLS
  THEN [guess |-> NoWord, llm_calls |-> MAX_LLM_CONTINUOUS_CALLS,
        asked |-> SubSeq(replies, 1, attempt - 1)]
  ELSE LET resp  == replies[attempt]
           guess == ExtractWord(resp)
       IN  IF resp # NoReply /\ guess # NoWord /\ Matches(constraints, guess)
           THEN [guess |-> guess, llm_calls |-> attempt,
                 asked |-> SubSeq(replies, 1, attempt)]
           ELSE AskOracle(attempt + 1, replies, constraints)

\* What the turn has settled when it reaches the oracle loop or returns
\* before it: ask tells which of the two, guess is the word of an early
\* return, cls the solver state, path the return statement it heads for.

\* A turn that asks the oracle although one candidate is left.
SingleAsksOracle(cls2) ==
  [ask |-> TRUE, cls |-> cls2, guess |-> NoWord, path |-> "oracle"]

\* "Single candidate - no LLM needed"
Single(cls2) ==
  [ask |-> FALSE, cls |-> cls2,
   guess |-> CHOOSE w \in cls2.candidates : TRUE, path |-> "single"]

\* A fallback that always takes the first starter.
RotationFirstStarter(n, cls3) ==
  [ask |-> FALSE, cls |-> cls3, guess |-> STARTERS[0], path |-> "rotation"]

\* "Still none - fallback"
Rotation(n, cls3) ==
  [ask |-> FALSE, cls |-> cls3,
   guess |-> STARTERS[n % Cardinality(DOMAIN STARTERS)], path |-> "rotation"]

\* The branches of turn n after the lie recovery step: the single
\* candidate, the relaxation and, if that leaves nothing, the starter
\* rotation; else the oracle.
Branch(n, cls2) ==
  IF Cardinality(cls2.candidates) = 1 THEN Single(cls2)
  ELSE LET cls3 == Relax(cls2)
       IN  IF cls3.candidates = {} THEN Rotation(n, cls3)
           ELSE [ask |-> TRUE, cls |-> cls3, guess |-> NoWord, path |-> "oracle"]

\* A turn after the first, up to the oracle loop.  filtered and recovered
\* are the candidate list after the filter step and after the lie recovery
\* step.
LaterTurn(self, cls0) ==
  LET n    == cls0.guess_num + 1
      cls1 == FilterCandidates(self, Ingest(self, [cls0 EXCEPT !.guess_num = n]))
      cls2 == AfterRecovery(self, cls1)
  IN  Branch(n, cls2)
        @@ [filtered |-> cls1.candidates, recovered |-> cls2.candidates]

\* A turn that treats the first turn as any other.
DecideWithoutOpener(self, cls0) == LaterTurn(self, cls0)

\* The turn up to the oracle loop; the first turn of a game submits the
\* first starter (the candidate list is left as the turn found it).
Decide(self, cls0) ==
  IF cls0.guess_num + 1 = 1
  THEN [ask |-> FALSE, cls |-> [cls0 EXCEPT !.guess_num = 1],
        guess |-> STARTERS[0], path |-> "starter",
        filtered |-> cls0.candidates, recovered |-> cls0.candidates]
  ELSE LaterTurn(self, cls0)

\* The rest of the turn: the oracle loop, the fallback and enter_word.
\* replies are the oracle's answers to the calls of this turn, top the word
\* the sort puts first.
SubmitDropsCandidate(self, d, replies, top) ==
  LET r     == AskOracle(1, replies, d.cls.constraints)
      guess == IF ~d.ask THEN d.guess
               ELSE IF r.guess # NoWord THEN r.guess
               ELSE top
      spent == d.ask /\ r.guess = NoWord
  IN  [self  |-> [EnterWordSelf(self, guess) EXCEPT !.was_valid_guess = TRUE],
       cls   |-> IF spent
                 THEN [d.cls EXCEPT !.candidates = @ \ {guess}]
                 ELSE d.cls,
       ret   |-> IF d.ask THEN r.llm_calls ELSE 0,
       asked |-> IF d.ask THEN r.asked ELSE <<>>,
       path  |-> IF spent THEN "fallback" ELSE d.path]

Submit(self, d, replies, top) ==
  LET r     == AskOracle(1, replies, d.cls.constraints)
      guess == IF ~d.ask THEN d.guess
               ELSE IF r.guess # NoWord THEN r.guess
               ELSE top
  IN  [self  |-> [EnterWordSelf(self, guess) EXCEPT !.was_valid_guess = TRUE],
       cls   |-> d.cls,
       ret   |-> IF d.ask THEN r.llm_calls ELSE 0,
       asked |-> IF d.ask THEN r.asked ELSE <<>>,
       path  |-> IF d.ask /\ r.guess = NoWord THEN "fallback" ELSE d.path]

\* enter_word_from_ai(): the new instance attributes, the new class
\* attributes and the value returned.
EnterWordFromAI(self, cls0, replies, top) ==
  Submit(self, Decide(self, cls0), replies, top)

\* ------------------------------------------------------------------------
\* The state machine
\* ------------------------------------------------------------------------

\* The GameState objects a program creates.
Instances == {1, 2}

\* The class attributes as one record, and their assignment.
Cls == [constraints |-> _constraints, candidates |-> _candidates,
        guess_num |-> _guess_num, history |-> _history]

SetCls(cls) ==
  /\ _constraints' = cls.constraints
  /\ _candidates' = cls.candidates
  /\ _guess_num' = cls.guess_num
  /\ _history' = cls.history

\* The answers of the oracle to the calls of one turn: silence throughout,
\* a word at the first call, a text at the first or second call, a text
\* twice and then a word, five characters that are no word at the fourth
\* call and a word at the last.
ReplySeqs ==
  { <<NoReply, NoReply, NoReply, NoReply, NoReply>>,
    <<<<crate>>, NoReply, NoReply, NoReply, NoReply>>,
    <<<<Junk, slant, trace>>, NoReply, NoReply, NoReply, NoReply>>,
    <<NoReply, <<Junk, slant, trace>>, NoReply, NoReply, NoReply>>,
    <<<<Junk, slant, trace>>, <<Junk>>, <<crate>>, NoReply, NoReply>>,
    <<NoReply, NoReply, NoReply, <<tea4r>>, <<crate>>>> }

\* num_guesses values a caller configures.
GuessLimits == {MaxGuesses - 1, MaxGuesses}

ScoreIdle ==
  /\ sc_target = crane
  /\ sc_guess = NoWord
  /\ sc_feedback = <<>>
  /\ sc_model = NewConstraints
  /\ sc_n = 0

\* One GameState has been constructed: __init__ ends with reset().
Init ==
  /\ \E target \in WORDS :
       games = (1 :> ResetSelf(InitFields, target, NoColumn))
  /\ _constraints = ResetCls.constraints
  /\ _candidates = ResetCls.candidates
  /\ _guess_num = ResetCls.guess_num
  /\ _history = ResetCls.history
  /\ op = [name |-> "__init__", g |-> 1, ret |-> 0, asked |-> <<>>, path |-> "",
            filtered |-> {}, recovered |-> {}]
  /\ ScoreIdle

\* GameState(): a further instance is constructed.
Construct(g) ==
  /\ g \notin DOMAIN games
  /\ \E target \in WORDS :
       games' = (g :> ResetSelf(InitFields, target, NoColumn)) @@ games
  /\ SetCls(ResetCls)
  /\ op' = [name |-> "__init__", g |-> g, ret |-> 0, asked |-> <<>>, path |-> "",
            filtered |-> {}, recovered |-> {}]
  /\ UNCHANGED scoreVars

\* game.num_lies = nl; game.num_guesses = ng on a game that has not been
\* played, and the reset() that run_game starts every game with.
Configure(g) ==
  /\ g \in DOMAIN games
  /\ games[g].words = <<>>
  /\ \E nl \in 0 .. MaxLies, ng \in GuessLimits, target \in WORDS :
     \E col \in (IF nl > 0 THEN Pos ELSE {NoColumn}) :
       games' = [games EXCEPT ![g] =
                   ResetSelf([@ EXCEPT !.num_lies = nl, !.num_guesses = ng],
                             target, col)]
  /\ SetCls(ResetCls)
  /\ op' = [name |-> "configure", g |-> g, ret |-> 0, asked |-> <<>>, path |-> "",
            filtered |-> {}, recovered |-> {}]
  /\ UNCHANGED scoreVars

\* A reset() without its "Reset solver state" block: the class attributes
\* are left as the last game left them.
ResetKeepsSolverState(g) ==
  /\ g \in DOMAIN games
  /\ \E target \in WORDS,
        col \in (IF games[g].num_lies > 0 THEN Pos ELSE {NoColumn}) :
       games' = [games EXCEPT ![g] = ResetSelf(@, target, col)]
  /\ op' = [name |-> "reset", g |-> g, ret |-> 0, asked |-> <<>>, path |-> "",
            filtered |-> {}, recovered |-> {}]
  /\ UNCHANGED <<clsVars, scoreVars>>

\* game.reset()
Reset(g) ==
  /\ g \in DOMAIN games
  /\ \E target \in WORDS,
        col \in (IF games[g].num_lies > 0 THEN Pos ELSE {NoColumn}) :
       games' = [games EXCEPT ![g] = ResetSelf(@, target, col)]
  /\ SetCls(ResetCls)
  /\ op' = [name |-> "reset", g |-> g, ret |-> 0, asked |-> <<>>, path |-> "",
            filtered |-> {}, recovered |-> {}]
  /\ UNCHANGED scoreVars

\* game.enter_word(guess), for a guess of guesses, on a game that has fewer
\* than limit guesses.
EnterWordUpTo(g, limit, guesses) ==
  /\ g \in DOMAIN games
  /\ Len(games[g].words) < limit
  /\ \E guess \in guesses :
       games' = [games EXCEPT ![g] = EnterWordSelf(@, guess)]
  /\ op' = [name |-> "enter_word", g |-> g, ret |-> 0, asked |-> <<>>, path |-> "",
            filtered |-> {}, recovered |-> {}]
  /\ UNCHANGED <<clsVars, scoreVars>>

\* game.enter_word(guess)
EnterWord(g) == EnterWordUpTo(g, MaxGuesses, DirectGuesses)

\* game.enter_word_from_ai(), with the oracle answering by one of seqs, on a
\* game that has fewer than limit guesses.
EnterWordAIUpTo(g, limit, seqs) ==
  /\ g \in DOMAIN games
  /\ Len(games[g].words) < limit
  /\ LET d == Decide(games[g], Cls)
     IN  \E replies \in seqs :
         \E top \in (IF d.ask THEN TopRanked(d.cls.candidates) ELSE {NoWord}) :
           LET r == Submit(games[g], d, replies, top)
           IN  /\ games' = [games EXCEPT ![g] = r.self]
               /\ SetCls(r.cls)
               /\ op' = [name |-> "enter_word_from_ai", g |-> g,
                         ret |-> r.ret, asked |-> r.asked, path |-> r.path,
                         filtered |-> d.filtered, recovered |-> d.recovered]
  /\ UNCHANGED scoreVars

\* game.enter_word_from_ai()
EnterWordAI(g) == EnterWordAIUpTo(g, MaxGuesses, ReplySeqs)

\* One GameState object, configured and played by its caller.
Next ==
  \/ Configure(1)
  \/ Reset(1)
  \/ EnterWord(1)
  \/ EnterWordAI(1)

Spec == Init /\ [][Next]_vars

\* The guesses made so far by all instances together.
RECURSIVE TotalGuesses(_)
TotalGuesses(S) ==
  IF S = {} THEN 0
  ELSE LET g == CHOOSE x \in S : TRUE
       IN  Len(games[g].words) + TotalGuesses(S \ {g})

\* Two GameState objects in one process: the second is constructed while
\* the first exists, and both are reset and played by the solver, up to
\* MaxGuesses guesses between them.
NextTwo ==
  \/ Construct(2)
  \/ \E g \in Instances : Reset(g)
  \/ \E g \in Instances :
       TotalGuesses(DOMAIN games) < MaxGuesses /\ EnterWordAI(g)

SpecTwo == Init /\ [][NextTwo]_vars

\* Longest guess list of a game that its caller and the solver play in turns.
MaxMixed == 5

\* An oracle that never answers.
SilentOracle == {[k \in 1 .. MAX_LLM_CONTINUOUS_CALLS |-> NoReply]}

\* The caller enters "cocoa" itself.
EnterWordMixed == EnterWordUpTo(1, MaxMixed, {cocoa})

\* The solver takes a turn, its oracle silent.
EnterWordAIMixed == EnterWordAIUpTo(1, MaxMixed, SilentOracle)

\* One game, configured once and then played by its caller and by the
\* solver in any order, up to MaxMixed guesses.
NextMixed ==
  \/ Configure(1)
  \/ EnterWordMixed
  \/ EnterWordAIMixed

SpecMixed == Init /\ [][NextMixed]_vars

\* run_game, the benchmark loop: "while game.status != Status.end:
\* game.enter_word_from_ai()".  No game is longer than its num_guesses, which
\* is DefaultNumGuesses at most.
RunTurn ==
  /\ games[1].status # "end"
  /\ EnterWordAIUpTo(1, DefaultNumGuesses, ReplySeqs)

\* run_game is called again once the previous game is over: game.reset().
RunReset ==
  /\ games[1].status = "end"
  /\ Reset(1)

\* One GameState object, configured by main and driven by run_game.
NextRun ==
  \/ Configure(1)
  \/ RunReset
  \/ RunTurn

SpecRun == Init /\ [][NextRun]_vars

\* An iteration of the loop, seen through the turn counter that
\* enter_word_from_ai advances first: within NextRun a step is a
\* LoopIteration exactly when it is a RunTurn, and LoopIteration is enabled
\* exactly when the loop condition holds.
LoopIteration ==
  /\ games[1].status # "end"
  /\ _guess_num' = _guess_num + 1

\* The loop does not stop while the status is not end: enter_word_from_ai
\* returns from every call (the oracle call is bounded by its timeout and
\* its exceptions are caught), so the next iteration is always taken.
SpecRunFair == SpecRun /\ WF__guess_num(LoopIteration)

\* ------------------------------------------------------------------------
\* SpecScore: the scoring function and the Constraints model on their own
\* ------------------------------------------------------------------------

InitScore ==
  /\ games = (1 :> ResetSelf(InitFields, crane, NoColumn))
  /\ _constraints = ResetCls.constraints
  /\ _candidates = ResetCls.candidates
  /\ _guess_num = ResetCls.guess_num
  /\ _history = ResetCls.history
  /\ op = [name |-> "__init__", g |-> 1, ret |-> 0, asked |-> <<>>, path |-> "",
            filtered |-> {}, recovered |-> {}]
  /\ sc_target \in ScoreTargets
  /\ sc_guess = NoWord
  /\ sc_feedback = <<>>
  /\ sc_model = NewConstraints
  /\ sc_n = 0

\* A guess is scored truthfully against the target and the pair is fed to
\* the model: score, then update.
ScoreAndUpdate ==
  /\ sc_n < MaxHist
  /\ \E guess \in ScoreGuesses :
       LET feedback == Score(guess, sc_target)
       IN  /\ sc_guess' = guess
           /\ sc_feedback' = feedback
           /\ sc_model' = Update(sc_model, guess, feedback, NoIgnore)
  /\ sc_n' = sc_n + 1
  /\ UNCHANGED <<sc_target, gameVars>>

NextScore == ScoreAndUpdate

SpecScore == InitScore /\ [][NextScore]_vars

\* ------------------------------------------------------------------------
\* SpecMatches: calls of Constraints.matches between updates
\* ------------------------------------------------------------------------

\* The words fed to update and asked of matches.
MatchWords == WORDS \cup DirectGuesses

\* A fresh Constraints object, and the target its feedback will come from.
InitMatches ==
  /\ games = (1 :> ResetSelf(InitFields, crane, NoColumn))
  /\ _constraints = ResetCls.constraints
  /\ _candidates = ResetCls.candidates
  /\ _guess_num = ResetCls.guess_num
  /\ _history = ResetCls.history
  /\ op = [name |-> "__init__", word |-> NoWord]
  /\ sc_target \in WORDS
  /\ sc_guess = NoWord
  /\ sc_feedback = <<>>
  /\ sc_model = NewConstraints
  /\ sc_n = 0

\* c.update(guess, feedback) with the truthful feedback of guess.
FeedPair ==
  /\ sc_n < MaxHist
  /\ \E guess \in MatchWords :
       LET feedback == Score(guess, sc_target)
       IN  /\ sc_guess' = guess
           /\ sc_feedback' = feedback
           /\ sc_model' = Update(sc_model, guess, feedback, NoIgnore)
           /\ op' = [name |-> "update", word |-> guess]
  /\ sc_n' = sc_n + 1
  /\ UNCHANGED <<sc_target, games, clsVars>>

\* c.matches(word)
CallMatches ==
  /\ \E word \in MatchWords :
       LET r == MatchesCall(sc_model, word)
       IN  /\ sc_model' = r.self
           /\ op' = [name |-> "matches", word |-> word, result |-> r.result]
  /\ UNCHANGED <<sc_target, sc_guess, sc_feedback, sc_n, games, clsVars>>

NextMatches == FeedPair \/ CallMatches

SpecMatches == InitMatches /\ [][NextMatches]_vars

\* ------------------------------------------------------------------------
\* Construction on a given vocabulary and starter list (SpecConfig)
\* ------------------------------------------------------------------------

\* Longest starter list drawn.
MaxStarters == 2

\* The values the module-level names WORDS and STARTERS hold when a
\* GameState is constructed: a part of the vocabulary, and a front part of
\* the starter list.
Vocabularies == SUBSET WORDS

StarterLists ==
  {[i \in 0 .. (n - 1) |-> STARTERS[i]] : n \in 0 .. MaxStarters}

\* The record of the last call: the two module-level values, the call and
\* the exception it raised ("" when it returned).
Config(vocabulary, starters, name, error) ==
  [name |-> name, WORDS |-> vocabulary, STARTERS |-> starters, error |-> error]

\* reset() on the class attributes with WORDS holding vocabulary.
ResetClsOn(vocabulary) == [ResetCls EXCEPT !.candidates = vocabulary]

\* GameState() with the two module-level values drawn.  __init__ reads
\* WORDS only (word_list = list(WORDS)) and ends in reset(), whose
\* random.choice raises IndexError on an empty word_list, before the class
\* attributes are assigned; STARTERS is not read.
InitConfig ==
  /\ \E vocabulary \in Vocabularies : \E starters \in StarterLists :
       IF vocabulary = {}
       THEN /\ games = <<>>
            /\ _candidates = {}
            /\ op = Config(vocabulary, starters, "__init__", "IndexError")
       ELSE /\ \E target \in vocabulary :
                 games = (1 :> ResetSelf(InitFields, target, NoColumn))
            /\ _candidates = vocabulary
            /\ op = Config(vocabulary, starters, "__init__", "")
  /\ _constraints = ResetCls.constraints
  /\ _guess_num = ResetCls.guess_num
  /\ _history = ResetCls.history
  /\ ScoreIdle

\* reset() of the constructed game: word_list is the vocabulary read at
\* construction.
ResetConfigured ==
  /\ 1 \in DOMAIN games
  /\ \E target \in op.WORDS :
       games' = [games EXCEPT ![1] = ResetSelf(@, target, NoColumn)]
  /\ SetCls(ResetClsOn(op.WORDS))
  /\ op' = [op EXCEPT !.name = "reset", !.error = ""]
  /\ UNCHANGED scoreVars

\* The first enter_word_from_ai() of a game: _guess_num becomes 1 and
\* STARTERS[0] is read, which raises IndexError on an empty list before
\* enter_word is reached.
FirstTurnConfigured ==
  /\ 1 \in DOMAIN games
  /\ _guess_num = 0
  /\ _guess_num' = 1
  /\ IF DOMAIN op.STARTERS = {}
     THEN /\ op' = [op EXCEPT !.name = "enter_word_from_ai",
                              !.error = "IndexError"]
          /\ UNCHANGED games
     ELSE /\ op' = [op EXCEPT !.name = "enter_word_from_ai", !.error = ""]
          /\ games' = [games EXCEPT ![1] =
                         [EnterWordSelf(@, op.STARTERS[0])
                            EXCEPT !.was_valid_guess = TRUE]]
  /\ UNCHANGED <<_constraints, _candidates, _history>>
  /\ UNCHANGED scoreVars

NextConfig == ResetConfigured \/ FirstTurnConfigured

SpecConfig == InitConfig /\ [][NextConfig]_vars

\* ------------------------------------------------------------------------
\* Constraints.update with an ignored column (SpecUpdate)
\* ------------------------------------------------------------------------

\* Most pairs fed to one model.
MaxUpdates == 2

abbab == W(<<"a", "b", "b", "a", "b">>)
aabaa == W(<<"a", "a", "b", "a", "a">>)

\* The targets the feedback comes from and the guesses fed.
UpdateTargets == {crane, level, ladle, cocoa, abbab}

UpdateGuesses == {crane, slate, level, ladle, cocoa, aabaa}

\* The columns a reported feedback may be corrupted in (NoColumn: none).
LiedColumns == {NoColumn, 0, WordLen - 1}

\* The feedback of guess against target as the game reports it when it
\* lies in column col.
Reported(guess, target, col) ==
  LET feedback == Score(guess, target)
  IN  IF col = NoColumn THEN feedback
      ELSE [feedback EXCEPT ![col] = LieTag(feedback[col])]

\* test_constraints = Constraints(), to be fed with ignore_column fixed (the
\* loop of lines 719-721), or with no column ignored (line 704).
InitUpdate ==
  /\ games = (1 :> ResetSelf(InitFields, crane, NoColumn))
  /\ _constraints = ResetCls.constraints
  /\ _candidates = ResetCls.candidates
  /\ _guess_num = ResetCls.guess_num
  /\ _history = ResetCls.history
  /\ \E col \in Pos \cup {NoIgnore} :
       op = [name |-> "__init__", ignore_column |-> col,
             before |-> NewConstraints]
  /\ sc_target \in UpdateTargets
  /\ sc_guess = NoWord
  /\ sc_feedback = <<>>
  /\ sc_model = NewConstraints
  /\ sc_n = 0

\* c.update(guess, feedback, ignore_column); op.before is the model the call
\* found.
UpdateIgnoring ==
  /\ sc_n < MaxUpdates
  /\ \E guess \in UpdateGuesses, col \in LiedColumns :
       LET feedback == Reported(guess, sc_target, col)
       IN  /\ sc_guess' = guess
           /\ sc_feedback' = feedback
           /\ sc_model' = Update(sc_model, guess, feedback, op.ignore_column)
  /\ op' = [op EXCEPT !.name = "update", !.before = sc_model]
  /\ sc_n' = sc_n + 1
  /\ UNCHANGED <<sc_target, games, clsVars>>

NextUpdate == UpdateIgnoring

SpecUpdate == InitUpdate /\ [][NextUpdate]_vars

\* ------------------------------------------------------------------------
\* Properties of the scoring function and of the model (SpecScore)
\* ------------------------------------------------------------------------

\* The positions of the last scored guess that hold letter l and are tagged
\* correct or present.
Credited(l) == {i \in Pos : /\ Lower(sc_guess)[i] = l
                            /\ sc_feedback[i] \in {"correct", "present"}}

\* C1: a Constraints model fed, in order, every guess of a sequence with its
\* truthful feedback against target T matches T.
C1_TruthfulRoundTrip == Matches(sc_model, sc_target)

\* Two pairs have been fed, the last guess is not the target, and the model
\* holds an upper bound above zero (a letter marked incorrect at one place
\* and confirmed at another).
C1_Witness ==
  /\ sc_n >= 2
  /\ Lower(sc_guess) # sc_target
  /\ \E l \in DOMAIN sc_model.max_count : sc_model.max_count[l] > 0
  /\ DOMAIN sc_model.correct_pos # {}

\* C2: for every letter L with k occurrences in the target, at most k
\* positions of the guess holding L are tagged correct or present.
C2_NoOverCredit ==
  sc_n > 0 =>
    \A l \in LettersOf(sc_target) \cup LettersOf(Lower(sc_guess)) :
      Cardinality(Credited(l)) <= Count(sc_target, l)

\* The guess holds a letter more often than the target does, the target
\* holds it, and every occurrence in the target is credited.
C2_Witness ==
  /\ sc_n > 0
  /\ \E l \in LettersOf(sc_target) :
       /\ Count(Lower(sc_guess), l) > Count(sc_target, l)
       /\ Cardinality(Credited(l)) = Count(sc_target, l)

\* C3: the feedback has exactly 5 tags, and position i is tagged correct if
\* and only if the guess and the target hold the same letter at i.
C3_CorrectIffEqual ==
  sc_n > 0 =>
    /\ DOMAIN sc_feedback = Pos
    /\ Cardinality(DOMAIN sc_feedback) = 5
    /\ \A i \in Pos :
         /\ sc_feedback[i] \in Feedback
         /\ sc_feedback[i] = "correct" <=> Lower(sc_guess)[i] = sc_target[i]

\* A guess with a matching and a non-matching position, the non-matching
\* letter being one the target holds elsewhere.
C3_Witness ==
  /\ sc_n > 0
  /\ \E i, j \in Pos : /\ sc_feedback[i] = "correct"
                       /\ sc_feedback[j] = "present"

\* C4: the positions of a letter L tagged correct or present number
\* min(occurrences in the guess, occurrences in the target); among the
\* occurrences of L that are not correct the present tags are the leftmost;
\* target "level", guess "ladle" gives correct, incorrect, incorrect,
\* present, present.
C4_DuplicateLetters ==
  sc_n > 0 =>
    LET g == Lower(sc_guess) IN
    /\ \A l \in LettersOf(g) :
         /\ Cardinality(Credited(l)) = Min(Count(g, l), Count(sc_target, l))
         /\ \A i, j \in Pos :
              ( /\ i < j
                /\ g[i] = l
                /\ g[j] = l
                /\ sc_feedback[i] # "correct"
                /\ sc_feedback[j] = "present" ) => sc_feedback[i] = "present"
    /\ (sc_target = level /\ g = ladle) =>
         sc_feedback = W(<<"correct", "incorrect", "incorrect",
                           "present", "present">>)

\* "ladle" has been scored against "level".
C4_Witness ==
  /\ sc_n > 0
  /\ sc_target = level
  /\ sc_guess = ladle

\* C5: target "crane", guess "slate" gives incorrect, incorrect, correct,
\* incorrect, correct.
C5_CraneSlate ==
  (sc_n > 0 /\ sc_target = crane /\ sc_guess = slate) =>
    sc_feedback = W(<<"incorrect", "incorrect", "correct",
                      "incorrect", "correct">>)

\* "slate" has been scored against "crane".
C5_Witness ==
  /\ sc_n > 0
  /\ sc_target = crane
  /\ sc_guess = slate

\* ------------------------------------------------------------------------
\* Properties of the game (Spec, SpecTwo)
\* ------------------------------------------------------------------------

\* The step is a guess of instance g being scored: enter_word, called
\* directly or by enter_word_from_ai.
Scored(g) ==
  /\ g \in DOMAIN games
  /\ op'.g = g
  /\ op'.name \in {"enter_word", "enter_word_from_ai"}
  /\ Len(games'[g].words) = Len(games[g].words) + 1

\* The guess the step scored, with the feedback reported for it.
LastWord(g) == games'[g].words[Len(games'[g].words)]

\* Its truthful feedback.
LastTruth(g) == Score(LastWord(g).word, games[g].target_word)

\* The guesses of instance g with their reported feedback, as history.
ReportedHistory(g) ==
  [k \in 1 .. Len(games[g].words) |->
     <<games[g].words[k].word, games[g].words[k].feedback>>]

\* C6: when a guess is scored while lies remain (num_lies > 0 and
\* lies_given < num_lies), the reported feedback is the truthful feedback
\* except in the lie column, where correct and present read incorrect and
\* incorrect reads present.
C6_LieInjection ==
  [][\A g \in Instances :
       ( /\ Scored(g)
         /\ games[g].num_lies > 0
         /\ games[g].lies_given < games[g].num_lies )
       => /\ games[g].lie_column \in Pos
          /\ \A i \in Pos :
               LastWord(g).feedback[i] =
                 IF i # games[g].lie_column THEN LastTruth(g)[i]
                 ELSE IF LastTruth(g)[i] = "correct" THEN "incorrect"
                 ELSE IF LastTruth(g)[i] = "present" THEN "incorrect"
                 ELSE "present"]_vars

\* A game whose first guess held a letter of the target, misplaced, in the
\* lie column: the truthful tag present is reported as incorrect.
C6_Witness ==
  \E g \in DOMAIN games :
    /\ games[g].lies_given > 0
    /\ Len(games[g].words) > 0
    /\ Score(games[g].words[1].word, games[g].target_word)[games[g].lie_column]
         = "present"
    /\ games[g].words[1].feedback[games[g].lie_column] = "incorrect"

\* C7: a scored guess whose reported feedback is not the truthful one raises
\* lies_given by exactly one; lies_given never exceeds num_lies; a guess
\* scored when lies_given = num_lies gets the truthful feedback and leaves
\* lies_given as it is, so the rest of the game is truthful.
C7_LieBudget ==
  [][\A g \in Instances :
       /\ g \in DOMAIN games' => games'[g].lies_given <= games'[g].num_lies
       /\ Scored(g) =>
            /\ LastWord(g).feedback # LastTruth(g)
                 => games'[g].lies_given = games[g].lies_given + 1
            /\ games[g].lies_given = games[g].num_lies
                 => /\ LastWord(g).feedback = LastTruth(g)
                    /\ games'[g].lies_given = games[g].lies_given
            /\ games'[g].num_lies = games[g].num_lies]_vars

\* A game with lies whose budget is spent and which has since scored a
\* guess truthfully.
C7_Witness ==
  \E g \in DOMAIN games :
    /\ games[g].num_lies > 0
    /\ games[g].lies_given = games[g].num_lies
    /\ Len(games[g].words) > games[g].num_lies
    /\ LET w == games[g].words[Len(games[g].words)]
       IN  w.feedback = Score(w.word, games[g].target_word)

\* C8: no call other than reset (and the construction and configuration
\* that end with it) changes lie_column, and every reported tag of the game
\* that differs from the truthful one stands in the lie column.
C8_LieColumnFixed ==
  [][\A g \in Instances :
       ( /\ g \in DOMAIN games
         /\ ~(op'.g = g /\ op'.name \in {"reset", "configure", "__init__"}) )
       => /\ games'[g].lie_column = games[g].lie_column
          /\ \A k \in 1 .. Len(games'[g].words) : \A i \in Pos :
               games'[g].words[k].feedback[i]
                   # Score(games'[g].words[k].word, games'[g].target_word)[i]
                 => i = games'[g].lie_column]_vars

\* A game in which two guesses were lied about, the second by the solver.
C8_Witness ==
  \E g \in DOMAIN games :
    /\ games[g].lies_given = 2
    /\ op.name = "enter_word_from_ai"
    /\ \A k \in 1 .. 2 :
         games[g].words[k].feedback
           # Score(games[g].words[k].word, games[g].target_word)

\* C9: in a game with lie column c, a Constraints model rebuilt from every
\* guess and its reported feedback with ignore_column = c matches the target.
C9_RecoveryKeepsTarget ==
  \A g \in DOMAIN games :
    games[g].lie_column # NoColumn =>
      Matches(Rebuild(1, ReportedHistory(g), games[g].lie_column, NewConstraints),
              games[g].target_word)

\* C10: a call on one instance leaves the constraint model, the candidate
\* list, the guess counter and the ingested history used by every other
\* instance as they are.
C10_NoSharedSolverState ==
  [][\A g \in Instances :
       (g \in DOMAIN games /\ op'.g # g) => UNCHANGED clsVars]_vars

\* ------------------------------------------------------------------------
\* Properties of the solver turn (Spec)
\* ------------------------------------------------------------------------

\* The step is a call of enter_word_from_ai on instance g.
SolverTurn(g) ==
  /\ g \in DOMAIN games
  /\ op'.name = "enter_word_from_ai"
  /\ op'.g = g

\* C11: a call of enter_word_from_ai makes at most MAX_LLM_CONTINUOUS_CALLS
\* oracle calls and returns the number of oracle calls it made, whatever the
\* oracle replied.
C11_OracleCallBudget ==
  op.name = "enter_word_from_ai" =>
    /\ Len(op.asked) <= MAX_LLM_CONTINUOUS_CALLS
    /\ op.ret = Len(op.asked)

\* A turn whose oracle gave no reply three times, then a reply that is no
\* word, then a word that was accepted at the last call of the budget.
C11_Witness ==
  /\ op.name = "enter_word_from_ai"
  /\ op.path = "oracle"
  /\ Len(op.asked) = MAX_LLM_CONTINUOUS_CALLS
  /\ op.asked[1] = NoReply
  /\ op.asked[4] = <<tea4r>>

\* The lower-case letters.
Alphabetic == Letters \ DOMAIN UpperToLower

\* C12: a call of enter_word_from_ai on a playing game appends exactly one
\* guess to the guess list, and that guess is a word of 5 alphabetic
\* characters, whatever the oracle replied and whatever the candidate list
\* held.
C12_OneGuessPerTurn ==
  [][\A g \in Instances :
       (SolverTurn(g) /\ games[g].status = "playing")
       => /\ Len(games'[g].words) = Len(games[g].words) + 1
          /\ SubSeq(games'[g].words, 1, Len(games[g].words)) = games[g].words
          /\ DOMAIN LastWord(g).word = Pos
          /\ \A i \in Pos : LastWord(g).word[i] \in Alphabetic]_vars

\* A playing game whose oracle answered five characters that are no word
\* within the budget and which submitted a guess all the same.
C12_Witness ==
  /\ op.name = "enter_word_from_ai"
  /\ \E k \in 1 .. Len(op.asked) : op.asked[k] = <<tea4r>>
  /\ Len(games[op.g].words) >= 2
  /\ Len(games[op.g].words) < games[op.g].num_guesses

\* C13: on every turn after the first, the candidate list after the filter
\* step holds only words of the candidate list the previous turn left: the
\* filter step never gains a word (with or without a lie recovery in the
\* game).
C13_FilterNeverGains ==
  [][\A g \in Instances :
       (SolverTurn(g) /\ _guess_num' > 1)
       => op'.filtered \subseteq _candidates]_vars

\* A third turn whose filter step left a word, in a game whose previous turn
\* asked the oracle with more than one candidate.
C13_Witness ==
  /\ op.name = "enter_word_from_ai"
  /\ _guess_num = 3
  /\ op.filtered # {}
  /\ Cardinality(op.filtered) < Cardinality(WORDS)

\* The words guessed in the game of instance g before its last guess.
GuessedBefore(g) ==
  {games[g].words[k].word : k \in 1 .. (Len(games[g].words) - 1)}

\* C14: when a turn has chosen its guess from the candidate list (the single
\* candidate, or the list handed to the oracle and to the ranking), every
\* candidate is a vocabulary word, satisfies the constraint model and was not
\* guessed earlier in the game.
C14_CandidateSetInvariant ==
  (op.name = "enter_word_from_ai" /\ op.path \in {"single", "oracle", "fallback"})
  => \A w \in _candidates :
       /\ w \in WORDS
       /\ Matches(_constraints, w)
       /\ w \notin GuessedBefore(op.g)

\* ------------------------------------------------------------------------
\* Properties of Constraints.matches (SpecMatches)
\* ------------------------------------------------------------------------

C16_ResetStartsFresh ==
  op.name = "reset" =>
    /\ games[op.g].words = <<>>
    /\ games[op.g].status = "playing"
    /\ games[op.g].success = FALSE
    /\ games[op.g].lies_given = 0
    /\ DOMAIN _constraints.correct_pos = {}
    /\ \A i \in Pos : _constraints.excluded_pos[i] = {}
    /\ DOMAIN _constraints.min_count = {}
    /\ DOMAIN _constraints.max_count = {}
    /\ \A w \in WORDS : Matches(_constraints, w)
    /\ _candidates = WORDS
    /\ _guess_num = 0
    /\ _history = <<>>

\* A game with lies has just been reset.
C16_Witness ==
  /\ op.name = "reset"
  /\ games[op.g].num_lies > 0
  /\ games[op.g].lie_column \in Pos
  /\ games[op.g].words = <<>>

\* C17: the first enter_word_from_ai call of a game (was_valid_guess, which
\* reset() clears and only enter_word_from_ai sets, is still false) submits
\* STARTERS[0], the word "salet", and returns 0 without an oracle call.
C17_FirstTurnStarter ==
  [][\A g \in Instances :
       (SolverTurn(g) /\ ~games[g].was_valid_guess)
       => /\ LastWord(g).word = STARTERS[0]
          /\ LastWord(g).word = salet
          /\ op'.ret = 0
          /\ op'.asked = <<>>]_vars

\* The first turn of a game with lies has been played, after a guess that
\* was entered directly.
C17_Witness ==
  /\ op.name = "enter_word_from_ai"
  /\ _guess_num = 1
  /\ games[op.g].num_lies > 0
  /\ Len(games[op.g].words) = 2
  /\ games[op.g].words[2].word = salet

\* C18: on a turn after the first, when the candidate list after the filter
\* step and the lie recovery step has exactly one member, that member is the
\* guess submitted and no oracle call is made.
C18_SingleCandidate ==
  [][\A g \in Instances :
       (SolverTurn(g) /\ _guess_num' > 1 /\ Cardinality(op'.recovered) = 1)
       => /\ LastWord(g).word \in op'.recovered
          /\ _candidates' = op'.recovered
          /\ op'.asked = <<>>
          /\ op'.ret = 0]_vars

\* A turn whose filter step left nothing and whose lie recovery found
\* exactly one word.
C18_Witness ==
  /\ op.name = "enter_word_from_ai"
  /\ _guess_num >= 2
  /\ op.filtered = {}
  /\ Cardinality(op.recovered) = 1
  /\ games[op.g].words[Len(games[op.g].words)].word \in op.recovered

\* C19: on a turn after the first, when the filter step and (in a game with
\* lies) the lie recovery leave no candidate, the candidate list becomes the
\* vocabulary words that match the constraint model; if there is none, the
\* guess submitted is STARTERS[turn number mod len(STARTERS)] and no oracle
\* call is made; either way one guess is submitted with at most
\* MAX_LLM_CONTINUOUS_CALLS oracle calls.
C19_EmptyCandidateFallback ==
  [][\A g \in Instances :
       (SolverTurn(g) /\ _guess_num' > 1 /\ op'.recovered = {})
       => /\ _candidates' = {w \in WORDS : Matches(_constraints', w)}
          /\ _candidates' = {}
               => /\ LastWord(g).word = STARTERS[_guess_num' % 7]
                  /\ op'.asked = <<>>
                  /\ op'.ret = 0
          /\ Len(games'[g].words) = Len(games[g].words) + 1
          /\ Len(op'.asked) <= MAX_LLM_CONTINUOUS_CALLS]_vars

\* A turn of a game with lies in which neither the filter nor any ignored
\* column nor the relaxation left a word, and which submitted the starter
\* of its turn number.
C19_Witness ==
  /\ op.name = "enter_word_from_ai"
  /\ _guess_num >= 2
  /\ op.recovered = {}
  /\ _candidates = {}
  /\ games[op.g].num_lies > 0
  /\ games[op.g].words[Len(games[op.g].words)].word = STARTERS[_guess_num]

\* The reply resp is one the oracle loop accepts under the model c.
Accepted(resp, c) ==
  /\ resp # NoReply
  /\ ExtractWord(resp) # NoWord
  /\ Matches(c, ExtractWord(resp))

\* C20: when none of the MAX_LLM_CONTINUOUS_CALLS oracle calls of a turn
\* gave an accepted guess, the guess submitted is a member of the candidate
\* list whose score is at least the score of every candidate.
C20_BudgetExhaustion ==
  [][\A g \in Instances :
       ( /\ SolverTurn(g)
         /\ Len(op'.asked) = MAX_LLM_CONTINUOUS_CALLS
         /\ \A k \in 1 .. MAX_LLM_CONTINUOUS_CALLS :
              ~Accepted(op'.asked[k], _constraints') )
       => /\ LastWord(g).word \in _candidates'
          /\ \A v \in _candidates' :
               ScoreWord(LastWord(g).word) >= ScoreWord(v)]_vars

\* A turn whose five oracle calls gave nothing it accepted, one of them a
\* reply that was no word, and whose candidate list held a word of a lower
\* score than the guess submitted.
C20_Witness ==
  /\ op.name = "enter_word_from_ai"
  /\ op.path = "fallback"
  /\ op.ret = MAX_LLM_CONTINUOUS_CALLS
  /\ \E k \in 1 .. Len(op.asked) : op.asked[k] # NoReply
  /\ \E v \in _candidates :
       ScoreWord(v) < ScoreWord(games[op.g].words[Len(games[op.g].words)].word)

\* ------------------------------------------------------------------------
\* Properties of the oracle loop, of ingestion and of lie recovery (Spec)
\* ------------------------------------------------------------------------

\* The last guess of the game the last call was made on.
Submitted == games[op.g].words[Len(games[op.g].words)].word

\* C21: in a turn that asked the oracle, no reply before the last one
\* consumed gave a word the constraint model matches; if the last one did,
\* its word is the guess submitted (and nothing was asked after it); if it
\* did not, the whole budget was spent; a guess that comes from the oracle
\* is matched by the model.
C21_OracleAcceptance ==
  (op.name = "enter_word_from_ai" /\ op.asked # <<>>) =>
    LET n == Len(op.asked) IN
    /\ \A k \in 1 .. (n - 1) : ~Accepted(op.asked[k], _constraints)
    /\ Accepted(op.asked[n], _constraints)
         => /\ Submitted = ExtractWord(op.asked[n])
            /\ op.ret = n
    /\ ~Accepted(op.asked[n], _constraints) => n = MAX_LLM_CONTINUOUS_CALLS
    /\ op.path = "oracle"
         => /\ Accepted(op.asked[n], _constraints)
            /\ Matches(_constraints, Submitted)

\* A turn whose oracle first proposed a word the model refused and later a
\* word it matched, which was submitted.
C21_Witness ==
  /\ op.name = "enter_word_from_ai"
  /\ op.path = "oracle"
  /\ Len(op.asked) >= 2
  /\ ExtractWord(op.asked[1]) # NoWord
  /\ ~Matches(_constraints, ExtractWord(op.asked[1]))
  /\ Submitted = ExtractWord(op.asked[Len(op.asked)])

\* C22: in a turn that asked the oracle, every call that gave nothing, no
\* word or a refused word counts one in the value returned; the guess list
\* gains the one guess of the turn and nothing else; the constraint model,
\* the candidate list and the history are the ones the turn had before the
\* first call; the call returns a count and no error.
C22_OracleFailureAbsorbed ==
  [][\A g \in Instances :
       (SolverTurn(g) /\ op'.asked # <<>>) =>
         LET d      == Decide(games[g], Cls)
             n      == Len(op'.asked)
             failed == {k \in 1 .. n :
                          ~Accepted(op'.asked[k], d.cls.constraints)}
             old    == games[g].words
             new    == games'[g].words
         IN  /\ op'.ret = Cardinality(failed)
                            + (IF op'.path = "oracle" THEN 1 ELSE 0)
             /\ op'.ret \in 1 .. MAX_LLM_CONTINUOUS_CALLS
             /\ Len(new) = Len(old) + 1
             /\ SubSeq(new, 1, Len(old)) = old
             /\ _constraints' = d.cls.constraints
             /\ _candidates' = d.cls.candidates
             /\ _history' = d.cls.history
             /\ op'.path = "fallback"
                  => new[Len(new)].word \in TopRanked(d.cls.candidates)]_vars

\* A turn whose oracle was silent three times, then gave five characters
\* that are no word, then a word the model refused.
C22_Witness ==
  /\ op.name = "enter_word_from_ai"
  /\ op.path = "fallback"
  /\ op.ret = MAX_LLM_CONTINUOUS_CALLS
  /\ op.asked[1] = NoReply
  /\ op.asked[4] # NoReply /\ ExtractWord(op.asked[4]) = NoWord
  /\ ExtractWord(op.asked[5]) # NoWord
  /\ ~Matches(_constraints, ExtractWord(op.asked[5]))

\* The game self with another hidden target and lie column, and the same
\* guesses, reported feedback and configuration.
Hidden(self, target, col) ==
  [self EXCEPT !.target_word = target,
               !.lie_column = IF self.num_lies > 0 THEN col ELSE NoColumn]

\* The guess a turn submits.
Chosen(self, d, replies, top) ==
  LET w == Submit(self, d, replies, top).self.words IN w[Len(w)].word

\* The guesses ws played from the start of a game of self's configuration
\* whose target is target and whose lie column is col.
RECURSIVE Replay(_, _, _)
Replay(self, ws, k) ==
  IF k > Len(ws) THEN self
  ELSE Replay(EnterWordSelf(self, ws[k].word), ws, k + 1)

Replayed(self, target, col, n) ==
  Replay(ResetSelf(self, target, col), SubSeq(self.words, 1, n), 1).words

\* Another vocabulary word for each vocabulary word, and another column for
\* each column.
OtherTarget(target) ==
  IF target = salet THEN crane
  ELSE IF target = crane THEN crate
  ELSE IF target = crate THEN trace
  ELSE IF target = trace THEN cocoa
  ELSE salet

OtherColumn(col) == (col + 1) % WordLen

\* C23: on every solver turn, the game with the same guesses, the same
\* reported feedback, the same configuration and the same solver state but
\* another target and another lie column takes the decision this turn took
\* (the same solver state, filtered and recovered lists, and the same
\* choice to ask the oracle), and with the oracle replies this turn
\* consumed and the same pick among the top-ranked candidates submits the
\* guess this turn submitted.
C23_TargetHidden ==
  [][\A g \in Instances :
       SolverTurn(g) =>
         LET guess == games'[g].words[Len(games'[g].words)].word
             n     == Len(op'.asked)
             other == Hidden(games[g], OtherTarget(games[g].target_word),
                             OtherColumn(games[g].lie_column))
             d2    == Decide(other, Cls)
         IN  /\ d2.cls.constraints = _constraints'
             /\ d2.cls.candidates = _candidates'
             /\ d2.cls.history = _history'
             /\ d2.cls.guess_num = _guess_num'
             /\ d2.filtered = op'.filtered
             /\ d2.recovered = op'.recovered
             /\ d2.ask <=> (op'.asked # <<>>)
             /\ LET replies == CHOOSE r \in ReplySeqs :
                                  SubSeq(r, 1, n) = op'.asked
                IN  Chosen(other, d2, replies, guess) = guess]_vars

\* A turn after the first, taken on reported guesses that a game with
\* another target would have reported as well.
C23_Witness ==
  /\ op.name = "enter_word_from_ai"
  /\ _guess_num > 1
  /\ Len(games[op.g].words) >= 2
  /\ LET self == games[op.g]
         n    == Len(self.words) - 1
     IN  \E target \in WORDS \ {self.target_word} :
         \E col \in Pos :
           Replayed(self, target, col, n) = SubSeq(self.words, 1, n)

C25_IngestionByPair ==
  [][\A g \in Instances :
       (SolverTurn(g) /\ _guess_num' > 1 /\ games[g].words # <<>>) =>
         LET prev == games[g].words[Len(games[g].words)]
             pair == <<Lower(prev.word), prev.feedback>>
         IN  IF _history # <<>> /\ _history[Len(_history)] = pair
             THEN _history' = _history
             ELSE _history' = Append(_history, pair)]_vars

\* The words guessed before the last guess of the game of the last call.
GuessedEarlier ==
  {games[op.g].words[k].word : k \in 1 .. (Len(games[op.g].words) - 1)}

\* The vocabulary words a model rebuilt from history without column col
\* matches, the words of guessed left out.
TestCandidates(history, guessed, col) ==
  {w \in WORDS : /\ Matches(Rebuild(1, history, col, NewConstraints), w)
                 /\ w \notin guessed}

\* The last call was a solver turn of a lie game whose filter left nothing.
RecoveryTurn ==
  /\ op.name = "enter_word_from_ai"
  /\ op.path # "starter"
  /\ op.filtered = {}
  /\ games[op.g].num_lies > 0

\* C26: after a turn that attempted lie recovery, if some column's rebuilt
\* model leaves a vocabulary word, the constraint model is the model rebuilt
\* from the whole history without the lowest such column and the candidate
\* list is that column's list; if none does, the list stays empty for the
\* relaxation step.
C26_LowestColumnAdopted ==
  RecoveryTurn =>
    LET cols == {c \in Pos :
                   TestCandidates(_history, GuessedEarlier, c) # {}}
    IN  IF cols = {}
        THEN op.recovered = {}
        ELSE LET c == CHOOSE x \in cols : \A y \in cols : x <= y
             IN  /\ op.recovered = TestCandidates(_history, GuessedEarlier, c)
                 /\ _candidates = op.recovered
                 /\ _constraints = Rebuild(1, _history, c, NewConstraints)

\* A recovery that adopted a column, with a higher column that would have
\* given another list.
C26_Witness ==
  /\ RecoveryTurn
  /\ op.recovered # {}
  /\ \E c \in Pos :
       /\ TestCandidates(_history, GuessedEarlier, c) # {}
       /\ TestCandidates(_history, GuessedEarlier, c) # op.recovered

\* C27: a solver turn of a no-lie game, or one whose filter left a
\* candidate, attempts no recovery: the list after the recovery step is the
\* filtered list and the constraint model is the one ingestion left; and
\* every call on a no-lie game leaves the constraint model as it was, or
\* updated by the previous guess and its feedback, or cleared by a reset.
C27_RecoveryOnlyWhenEmptyAndLies ==
  [][\A g \in Instances :
       /\ (SolverTurn(g) /\ (games[g].num_lies = 0 \/ op'.filtered # {})) =>
            LET ing == IF _guess_num' = 1 THEN Cls ELSE Ingest(games[g], Cls)
            IN  /\ op'.recovered = op'.filtered
                /\ _constraints' = ing.constraints
                /\ _history' = ing.history
       /\ (g \in DOMAIN games /\ op'.g = g /\ games'[g].num_lies = 0) =>
            \/ _constraints' = _constraints
            \/ /\ op'.name \in {"reset", "configure"}
               /\ _constraints' = NewConstraints
            \/ /\ op'.name = "enter_word_from_ai"
               /\ games[g].words # <<>>
               /\ LET prev == games[g].words[Len(games[g].words)]
                  IN  _constraints' = Update(_constraints, Lower(prev.word),
                                             prev.feedback, NoIgnore)]_vars

\* A turn of a no-lie game whose filter left nothing, although a model
\* rebuilt without some column would have matched a word.
C27_Witness ==
  /\ op.name = "enter_word_from_ai"
  /\ op.path # "starter"
  /\ games[op.g].num_lies = 0
  /\ op.filtered = {}
  /\ op.recovered = {}
  /\ \E c \in Pos : TestCandidates(_history, GuessedEarlier, c) # {}

\* ------------------------------------------------------------------------
\* Properties of Constraints.update with an ignored column (SpecUpdate)
\* ------------------------------------------------------------------------

\* The positions outside the ignored column where the last guess holds
\* letter l with one of the tags.
Marked(l, tags) ==
  {i \in Pos \ {op.ignore_column} :
     sc_guess[i] = l /\ sc_feedback[i] \in tags}

\* The confirmed count of l in the last guess.
Confirmed(l) == Cardinality(Marked(l, {"correct", "present"}))

\* C28: with ignore_column = c, the model after update is the same whatever
\* tag and whatever letter the guess has in column c; and a model built by
\* such updates only has no pin at c and excludes no letter at c.
C28_IgnoredColumnUnused ==
  (op.name = "update" /\ op.ignore_column \in Pos) =>
    LET c == op.ignore_column IN
    /\ \A tag \in Feedback : \A letter \in {sc_guess[c], "z"} :
         Update(op.before, [sc_guess EXCEPT ![c] = letter],
                [sc_feedback EXCEPT ![c] = tag], c) = sc_model
    /\ c \notin DOMAIN sc_model.correct_pos
    /\ sc_model.excluded_pos[c] = {}

\* An update that ignored a column where the guess was marked correct or
\* present, while other columns carried marks.
C28_Witness ==
  /\ op.name = "update"
  /\ op.ignore_column \in Pos
  /\ sc_feedback[op.ignore_column] \in {"correct", "present"}
  /\ sc_model.correct_pos # <<>>
  /\ \E j \in Pos : sc_model.excluded_pos[j] # {}

\* C29: after update, a letter marked incorrect outside the ignored column
\* that has no correct or present mark outside it in the same guess has
\* max_count 0 and is excluded at every position but the ignored column.
C29_UnconfirmedLetterExcluded ==
  op.name = "update" =>
    \A l \in LettersOf(sc_guess) :
      (Marked(l, {"incorrect"}) # {} /\ Confirmed(l) = 0) =>
        /\ l \in DOMAIN sc_model.max_count
        /\ sc_model.max_count[l] = 0
        /\ \A j \in Pos \ {op.ignore_column} : l \in sc_model.excluded_pos[j]
        /\ op.ignore_column \in Pos
             => (l \in sc_model.excluded_pos[op.ignore_column]
                   <=> l \in op.before.excluded_pos[op.ignore_column])

\* An update with an ignored column and an unconfirmed incorrect letter
\* that the model had not excluded anywhere before.
C29_Witness ==
  /\ op.name = "update"
  /\ op.ignore_column \in Pos
  /\ \E l \in LettersOf(sc_guess) :
       /\ Marked(l, {"incorrect"}) # {}
       /\ Confirmed(l) = 0
       /\ \A j \in Pos : l \notin op.before.excluded_pos[j]

\* The part of model c that speaks of letter l.
LetterOnly(c, l) ==
  [correct_pos  |-> [i \in {j \in DOMAIN c.correct_pos : c.correct_pos[j] = l}
                       |-> l],
   excluded_pos |-> [i \in Pos |-> c.excluded_pos[i] \cap {l}],
   min_count    |-> [k \in DOMAIN c.min_count \cap {l} |-> c.min_count[k]],
   max_count    |-> [k \in DOMAIN c.max_count \cap {l} |-> c.max_count[k]]]

\* Word w holds l exactly n times, at every position where the last guess
\* has l marked correct and at none where it has l marked otherwise.
AllowedWord(w, l, n) ==
  /\ Count(w, l) = n
  /\ \A i \in Marked(l, {"correct"}) : w[i] = l
  /\ \A i \in Marked(l, {"present", "incorrect"}) : w[i] # l

\* C30: after update, a letter marked incorrect at one position and correct
\* or present at N >= 1 positions of the same guess (the ignored column left
\* out) has max_count N; the update excludes it only at the positions where
\* it is marked present; and on a model fed this guess alone every word
\* that holds the letter exactly N times at allowed positions satisfies all
\* the model says of the letter.
C30_DuplicateLetterStaging ==
  op.name = "update" =>
    \A l \in LettersOf(sc_guess) :
      (Marked(l, {"incorrect"}) # {} /\ Confirmed(l) >= 1) =>
        /\ l \in DOMAIN sc_model.max_count
        /\ sc_model.max_count[l] = Confirmed(l)
        /\ \A j \in Pos :
             (l \in sc_model.excluded_pos[j] /\ l \notin op.before.excluded_pos[j])
               => j \in Marked(l, {"present"})
        /\ LET alone == Update(NewConstraints, sc_guess, sc_feedback,
                               op.ignore_column)
           IN  \A w \in UpdateTargets \cup UpdateGuesses :
                 AllowedWord(w, l, Confirmed(l))
                   => Matches(LetterOnly(alone, l), w)

\* An update whose guess has a letter marked incorrect once and confirmed
\* twice, the target holding it exactly twice at allowed positions.
C30_Witness ==
  /\ op.name = "update"
  /\ \E l \in LettersOf(sc_guess) :
       /\ Marked(l, {"incorrect"}) # {}
       /\ Confirmed(l) = 2
       /\ AllowedWord(sc_target, l, 2)
       /\ Matches(sc_model, sc_target)

\* C31: after update, every letter with a correct or present mark in the
\* guess (the ignored column left out) has min_count equal to the larger
\* of its previous value (0 if it had none) and the number of those marks;
\* every other entry of min_count is as it was, and no entry is lower than
\* before.
C31_MinCountRunningMaximum ==
  op.name = "update" =>
    /\ \A l \in LettersOf(sc_guess) :
         Confirmed(l) >= 1 =>
           /\ l \in DOMAIN sc_model.min_count
           /\ sc_model.min_count[l]
                = Max(Get(op.before.min_count, l, 0), Confirmed(l))
    /\ \A l \in DOMAIN op.before.min_count :
         /\ l \in DOMAIN sc_model.min_count
         /\ sc_model.min_count[l] >= op.before.min_count[l]
         /\ Confirmed(l) = 0 => sc_model.min_count[l] = op.before.min_count[l]
    /\ \A l \in DOMAIN sc_model.min_count :
         l \in DOMAIN op.before.min_count \/ Confirmed(l) >= 1

\* An update whose guess confirms a letter fewer times than an earlier
\* guess did.
C31_Witness ==
  /\ op.name = "update"
  /\ \E l \in LettersOf(sc_guess) :
       /\ Confirmed(l) >= 1
       /\ l \in DOMAIN op.before.min_count
       /\ op.before.min_count[l] > Confirmed(l)
       /\ sc_model.min_count[l] = op.before.min_count[l]

\* ------------------------------------------------------------------------
\* Properties of Constraints.matches (SpecMatches)
\* ------------------------------------------------------------------------

\* The positions at which the lowercased word has letter l.
Places(word, l) == {i \in Pos : Lower(word)[i] = l}

\* C32: matches(word) returns true exactly when the lowercased word has the
\* pinned letter at every pinned position, has at no position a letter
\* excluded there, holds every letter of min_count at least that often and
\* every letter of max_count at most that often.
C32_MatchesIffAllFour ==
  op.name = "matches" =>
    (op.result <=>
       /\ \A i \in Pos :
            i \in DOMAIN sc_model.correct_pos
              => i \in Places(op.word, sc_model.correct_pos[i])
       /\ \A i \in Pos :
            \A l \in sc_model.excluded_pos[i] : i \notin Places(op.word, l)
       /\ \A l \in DOMAIN sc_model.min_count :
            Cardinality(Places(op.word, l)) >= sc_model.min_count[l]
       /\ \A l \in DOMAIN sc_model.max_count :
            Cardinality(Places(op.word, l)) <= sc_model.max_count[l])

\* matches returned true for a word in capitals on a model that has a pin,
\* an exclusion, a lower and an upper bound.
C32_Witness ==
  /\ op.name = "matches"
  /\ op.word = CRANE
  /\ op.result
  /\ sc_model.correct_pos # <<>>
  /\ \E i \in Pos : sc_model.excluded_pos[i] # {}
  /\ sc_model.min_count # <<>>
  /\ sc_model.max_count # <<>>

\* ------------------------------------------------------------------------
\* Properties of a whole game
\* ------------------------------------------------------------------------

\* C33: within one game the solver never submits a word that was already
\* submitted in that game: after a solver turn on a game that was still
\* playing, the word just submitted is none of the game's earlier words.
C33_NeverResubmits ==
  ( /\ op.name = "enter_word_from_ai"
    /\ Len(games[op.g].words) <= games[op.g].num_guesses
    /\ games[op.g].target_word \notin GuessedEarlier )
    => Submitted \notin GuessedEarlier

\* C34: in a no-lie game that the benchmark loop plays on the one instance,
\* on every turn after the first the target is among the candidates the
\* filter step leaves; the list is therefore not empty, and neither the
\* relaxation nor the opener rotation is taken.
C34_TargetStaysCandidate ==
  ( /\ op.name = "enter_word_from_ai"
    /\ games[1].num_lies = 0
    /\ _guess_num > 1 )
    => /\ games[1].target_word \in op.filtered
       /\ op.recovered = op.filtered
       /\ op.path \in {"single", "oracle", "fallback"}

\* The third turn of a no-lie game found two candidates after the filter,
\* the target one of them, and asked the oracle.
C34_Witness ==
  /\ op.name = "enter_word_from_ai"
  /\ games[1].num_lies = 0
  /\ _guess_num > 1
  /\ Cardinality(op.filtered) > 1
  /\ games[1].target_word \in op.filtered
  /\ op.path \in {"oracle", "fallback"}

\* C35: after enter_word(guess) on a game that is playing, directly or from
\* a solver turn, the status is end with success true exactly when the guess
\* (lowercased, as it is recorded) is the target, it is end with success
\* false exactly when the guess is not the target and the number of guesses
\* has reached num_guesses, and it stays playing otherwise; the reported
\* feedback has no part in the decision.
C35_GameEnd ==
  [][ ( /\ op'.name \in {"enter_word", "enter_word_from_ai"}
        /\ games[op'.g].status = "playing" )
      => LET self  == games'[op'.g]
             n     == Len(self.words)
             guess == self.words[n].word
             won   == self.status = "end" /\ self.success
             lost  == self.status = "end" /\ ~self.success
         IN  /\ n = Len(games[op'.g].words) + 1
             /\ won <=> guess = self.target_word
             /\ lost <=> (guess # self.target_word /\ n >= self.num_guesses)
             /\ ~won /\ ~lost => self.status = "playing" ]_vars

\* The target was guessed on the last allowed turn and the game is won,
\* although the reported feedback, lied in one column, is not all correct.
C35_Witness ==
  /\ op.name \in {"enter_word", "enter_word_from_ai"}
  /\ Len(games[op.g].words) = games[op.g].num_guesses
  /\ Submitted = games[op.g].target_word
  /\ \E i \in Pos :
       games[op.g].words[Len(games[op.g].words)].feedback[i] # "correct"
  /\ games[op.g].status = "end"
  /\ games[op.g].success

\* C36: driven by the benchmark loop, whatever the oracle answers, the
\* recorded tries never exceed num_guesses, a game that is still playing has
\* fewer than num_guesses of them, and every game that is playing reaches
\* status end.
C36_GameTerminates ==
  /\ [](/\ Len(games[1].words) <= games[1].num_guesses
        /\ games[1].status # "end"
             => Len(games[1].words) < games[1].num_guesses)
  /\ (games[1].status # "end") ~> (games[1].status = "end")

\* A game was lost on its last allowed turn, after the oracle had been
\* asked the full budget of calls.
C36_Witness ==
  /\ op.name = "enter_word_from_ai"
  /\ op.ret = MAX_LLM_CONTINUOUS_CALLS
  /\ Len(games[1].words) = games[1].num_guesses
  /\ games[1].status = "end"
  /\ ~games[1].success

\* C37: a recorded guess whose reported feedback is correct in all five
\* columns is the target, with and without lies.
C37_AllCorrectOnlyForTarget ==
  \A g \in DOMAIN games :
    \A k \in 1 .. Len(games[g].words) :
      (\A i \in Pos : games[g].words[k].feedback[i] = "correct")
        => games[g].words[k].word = games[g].target_word

\* In a game with lies one guess of a word that differs from the target in
\* one column was reported with a lie, and the target, guessed after the
\* lies were spent, was reported all correct.
C37_Witness ==
  /\ games[1].num_lies > 0
  /\ \E k \in 1 .. Len(games[1].words) :
       /\ games[1].words[k].word = games[1].target_word
       /\ \A i \in Pos : games[1].words[k].feedback[i] = "correct"
  /\ \E k \in 1 .. Len(games[1].words) :
       /\ games[1].words[k].word # games[1].target_word
       /\ games[1].words[k].feedback
            # Score(games[1].words[k].word, games[1].target_word)
       /\ Cardinality({i \in Pos : games[1].words[k].word[i]
                                     # games[1].target_word[i]}) = 1

\* C38: once a game's status is end, a further enter_word or
\* enter_word_from_ai on it leaves its status and its success as they are.
C38_EndStable ==
  [][ ( /\ op'.name \in {"enter_word", "enter_word_from_ai"}
        /\ games[op'.g].status = "end" )
      => /\ games'[op'.g].status = "end"
         /\ games'[op'.g].success = games[op'.g].success ]_vars

====
